---- MODULE Spec2Model ----
(***************************************************************************)
(* NTSC/CRT driver (ntsc_crt.c).  The file holds two builds selected by    *)
(* CMD_LINE_VERSION: the batch converter (main with argv) and the SDL      *)
(* viewer / capture sequencer (main, displaycb, handleInput, load_frame,   *)
(* save_frame, fade_phosphors).  Both are modelled here; the globals the   *)
(* two builds give the same name (field, progressive, raw, noise) are one  *)
(* variable each, initialised as the build in question initialises them.   *)
(***************************************************************************)
EXTENDS Integers, Sequences, FiniteSets, TLC

(* ------------------------------ bounds -------------------------------- *)
\* displaycb runs at most MaxTicks times in a run (roll grows by 10 per tick)
MaxTicks == 3
\* at most MaxSaves output files are written in a run
MaxSaves == 2
\* frame is explored within MaxStep of the indices the program sets itself
MaxStep == 1
\* noise and hs are explored up to their initial value plus MaxKnob
MaxKnob == 1
\* the engine knobs are explored within MaxTune of their start-up value
MaxTune == 1
\* key events waiting in the queue ahead of a stop event
MaxAhead == 1
\* fade_phosphors calls applied to one framebuffer word
MaxFades == 38

(* -------------------------- program constants ------------------------- *)
StartFrame == 200
ResetFrame == 1
OverlayLimit == 500
InitHs == 4
InitVs == 100
RollStep == 10
Passes == 4

VARIABLES
    \* globals of the SDL build
    color, noise, field, progressive, raw, roll, hs, vs, frame, play,
    img, imgload, imgw, pScreenShot, crt,
    \* position of main's do/while loop: "display", "input", "exit"
    pc,
    \* what the last displaycb call did, in order
    tickLog,
    \* the field parity of the last two crt_2ntsc calls of the SDL build, with
    \* the value progressive had at each
    encHist,
    \* every save_frame call so far, in order
    saved,
    \* the last key handleInput handled since the last displaycb, with the
    \* values the globals had when it arrived
    lastKey,
    \* batch build: flags, locals of main and its position
    docolor, dooverwrite, phase_offset, outw, outh, err, argv,
    bpc, calls, passLog,
    \* struct NTSC_SETTINGS ntsc (static in displaycb, local in the batch main)
    ntsc,
    \* the SDL event queue as far as a stop event (SDL_QUIT or escape) goes:
    \* 0 when none is queued, else its position in the queue from the head
    stop,
    \* one word of the framebuffer video, as fade_phosphors sees it
    video,
    \* the word the framebuffer started with, the word before the last
    \* fade_phosphors call and the number of calls so far
    faded

sdlVars == <<color, roll, hs, vs, frame, play, img, imgload, imgw,
             pScreenShot, crt, pc, tickLog, encHist, saved, lastKey, stop>>
batchVars == <<docolor, dooverwrite, phase_offset, outw, outh, err,
               argv, bpc, calls, passLog>>
sharedVars == <<noise, field, progressive, raw, ntsc>>
fadeVars == <<video, faded>>
vars == <<sdlVars, batchVars, sharedVars, fadeVars>>

Xor1(b) == 1 - b

\* a zero-filled struct NTSC_SETTINGS
ZeroNtsc == [rgb |-> "NULL", as_color |-> 0, field |-> 0, raw |-> 0,
             cc |-> <<0, 0, 0, 0>>]

(* ------------------------------ load_frame ---------------------------- *)
\* sprintf(name, "../SMPTE_Color_Bars.png", frame): the format has no
\* conversion, so the name does not depend on the index
FrameName(f) == "../SMPTE_Color_Bars.png"

\* SDL_CreateRGBSurface(0, imgw, imgh, ...): a surface of zero size has no
\* pixel storage
NewSurface(w) == IF w = 0 THEN "empty" ELSE "pixels"

\* load_frame with the loader succeeding (ok) or not, called while the
\* globals hold f (frame), w (imgw) and shot (pScreenShot).  The result is
\* the new imgload, imgw, pScreenShot and img, the return value, and the
\* name it reports when it fails.
load_frame(ok, f, w, shot) ==
    LET ld  == IF ok THEN "data" ELSE "NULL"
        w2  == IF ok THEN 1 ELSE w
        sh2 == IF f < OverlayLimit /\ shot = "NULL" THEN NewSurface(w2) ELSE shot
        im  == IF f < OverlayLimit
                 THEN (IF sh2 = "empty" THEN "NULL" ELSE "shot")
                 ELSE (IF ok THEN "imgload" ELSE "NULL")
    IN  [imgload |-> ld, imgw |-> w2, pScreenShot |-> sh2, img |-> im,
         ret |-> IF ok THEN 4 ELSE -1,
         message |-> IF ok THEN "" ELSE FrameName(f)]

(* ------------------------------ save_frame ---------------------------- *)
\* save_frame(loc, f): writes the framebuffer to the file numbered f
\* ("img%04i.png"); by tells which caller wrote it
save_frame(f, by) == Append(saved, [n |-> f, by |-> by])

(* ------------------------------ displaycb ----------------------------- *)
\* frame is explored near the two indices the program itself assigns
InWindow(f) ==
    \/ f <= ResetFrame + MaxStep
    \/ f \in (StartFrame - MaxStep)..(StartFrame + MaxStep)

Entry(op, n, s) == [op |-> op, n |-> n, s |-> s]

\* the last two encode calls
Remember(h, e) == IF Len(h) = 2 THEN <<h[2], e>> ELSE Append(h, e)

\* mutant: the index is taken after the increment without the -1
save_index_after(fr) == fr

\* save_frame(NULL, frame-1): the file number displaycb saves to, from the
\* value frame has after the increment
save_index(fr) == fr - 1

NoKey == [key |-> "", was |-> <<>>]
Globals == [frame |-> frame, noise |-> noise, hs |-> hs, vs |-> vs,
            color |-> color, field |-> field, progressive |-> progressive,
            raw |-> raw, play |-> play, crt |-> crt]

\* one call of displaycb; ok is the outcome of the stbi_load inside
\* load_frame (read only when play is set)
displaycb(ok) ==
    LET L   == load_frame(ok, frame, imgw, pScreenShot)
        im  == IF play = 1 THEN L.img ELSE img
        fr  == IF play = 1 THEN frame + 1 ELSE frame
        fd  == Xor1(field)
        lg1 == IF play = 1
                 THEN <<Entry("load", frame, FrameName(frame))>>
                      \o (IF ok THEN <<>> ELSE <<Entry("message", 0, L.message)>>)
                 ELSE <<>>
        lg2 == lg1 \o <<Entry("encode", fd % 2, im), Entry("draw", noise, "")>>
        lg3 == IF play = 1 THEN lg2 \o <<Entry("save", save_index(fr), "")>> ELSE lg2
        \* main hands video to the texture and presents it right after displaycb
        lg4 == lg3 \o <<Entry("present", 0, "")>>
    IN  /\ pc = "display"
        /\ roll < RollStep * MaxTicks
        /\ play = 1 => (Len(saved) < MaxSaves /\ InWindow(frame + 1))
        /\ IF play = 1
             THEN /\ imgload' = L.imgload
                  /\ imgw' = L.imgw
                  /\ pScreenShot' = L.pScreenShot
             ELSE UNCHANGED <<imgload, imgw, pScreenShot>>
        /\ img' = im
        /\ frame' = fr
        /\ field' = fd
        /\ roll' = roll + RollStep
        /\ ntsc' = [rgb |-> im, as_color |-> color, field |-> fd % 2,
                    raw |-> raw, cc |-> <<1, 0, -1, 0>>]
        /\ encHist' = Remember(encHist, [field |-> fd % 2, prog |-> progressive])
        /\ saved' = IF play = 1 THEN save_frame(save_index(fr), "tick") ELSE saved
        /\ tickLog' = lg4
        /\ lastKey' = NoKey
        /\ pc' = "input"
        /\ UNCHANGED <<color, noise, progressive, raw, hs, vs, play, crt, stop>>
        /\ UNCHANGED <<batchVars, fadeVars>>

DisplayCb == \E ok \in BOOLEAN : displaycb(ok)

(* ------------------------------ handleInput --------------------------- *)
\* crt_reset(&crt) of the engine; the five knobs are kept as offsets from
\* the values crt_init left
crt_reset(c) == c

\* mutants: the decrement without its clamp
hs_dec_unclamped(h) == h - 1
step_back_unclamped(f) == f - 1

noise_dec(n) == IF n - 1 < 0 THEN 0 ELSE n - 1
hs_dec(h) == IF h - 1 < 0 THEN 0 ELSE h - 1
vs_dec(v) == IF v - 1 < 0 THEN 0 ELSE v - 1
step_back(f) == IF f - 1 < 1 THEN 1 ELSE f - 1
\* mutant: the step-forward key leaves the index where it was
step_forward_stay(f) == f
step_forward(f) == f + 1

\* mutant: the reset branch puts the five knobs back to their start-up values
crt_key_defaults(c, k) ==
    CASE k = "1"     -> [c EXCEPT !.saturation = @ - 1]
      [] k = "2"     -> [c EXCEPT !.saturation = @ + 1]
      [] k = "q"     -> [c EXCEPT !.black_point = @ + 1]
      [] k = "a"     -> [c EXCEPT !.black_point = @ - 1]
      [] k = "w"     -> [c EXCEPT !.white_point = @ + 1]
      [] k = "s"     -> [c EXCEPT !.white_point = @ - 1]
      [] k = "UP"    -> [c EXCEPT !.brightness = @ + 1]
      [] k = "DOWN"  -> [c EXCEPT !.brightness = @ - 1]
      [] k = "LEFT"  -> [c EXCEPT !.contrast = @ - 1]
      [] k = "RIGHT" -> [c EXCEPT !.contrast = @ + 1]
      [] k = "r"     -> [saturation |-> 0, black_point |-> 0, white_point |-> 0,
                         brightness |-> 0, contrast |-> 0]
      [] OTHER       -> c

\* the engine knobs after key k
crt_key(c, k) ==
    CASE k = "1"     -> [c EXCEPT !.saturation = @ - 1]
      [] k = "2"     -> [c EXCEPT !.saturation = @ + 1]
      [] k = "q"     -> [c EXCEPT !.black_point = @ + 1]
      [] k = "a"     -> [c EXCEPT !.black_point = @ - 1]
      [] k = "w"     -> [c EXCEPT !.white_point = @ + 1]
      [] k = "s"     -> [c EXCEPT !.white_point = @ - 1]
      [] k = "UP"    -> [c EXCEPT !.brightness = @ + 1]
      [] k = "DOWN"  -> [c EXCEPT !.brightness = @ - 1]
      [] k = "LEFT"  -> [c EXCEPT !.contrast = @ - 1]
      [] k = "RIGHT" -> [c EXCEPT !.contrast = @ + 1]
      [] k = "r"     -> crt_reset(c)
      [] OTHER       -> c

Abs(x) == IF x < 0 THEN 0 - x ELSE x
\* the knobs are explored while their offsets add up to at most MaxTune
InTune(c) ==
    Abs(c.saturation) + Abs(c.black_point) + Abs(c.white_point)
      + Abs(c.brightness) + Abs(c.contrast) <= MaxTune

\* mutant: the reset branch leaves field as it is
field_key_keep(fd, prog1, k) ==
    LET f1 == IF k = "f" THEN Xor1(fd) ELSE fd
    IN  IF prog1 = 0 THEN Xor1(f1) ELSE f1

\* field after one SDL_KEYDOWN event with key k: reset, the f key, and the
\* toggle that closes the event when progressive (as the event left it) is off
field_key(fd, prog1, k) ==
    LET f1 == IF k = "r" THEN 0 ELSE IF k = "f" THEN Xor1(fd) ELSE fd
    IN  IF prog1 = 0 THEN Xor1(f1) ELSE f1

\* one SDL_KEYDOWN event with key k (not escape) taken from the queue by
\* handleInput; ok is the outcome of the load a step key triggers
KeyDown(k, ok) ==
    LET fr    == IF k = "r" THEN ResetFrame
                 ELSE IF k = "COMMA" THEN step_back(frame)
                 ELSE IF k = "PERIOD" THEN step_forward(frame)
                 ELSE frame
        prog1 == IF k = "r" THEN 1
                 ELSE IF k = "e" THEN Xor1(progressive) ELSE progressive
        steps == k \in {"COMMA", "PERIOD"}
        L     == load_frame(ok, fr, imgw, pScreenShot)
    IN  /\ pc = "input"
        /\ stop # 1
        /\ stop' = IF stop > 1 THEN stop - 1 ELSE stop
        /\ InWindow(fr)
        /\ k = "4" => noise < MaxKnob
        /\ k = "y" => hs < InitHs + MaxKnob
        /\ k = "u" => vs < InitVs + MaxKnob
        /\ k = "o" => Len(saved) < MaxSaves
        /\ InTune(crt_key(crt, k))
        /\ crt' = crt_key(crt, k)
        /\ noise' = IF k = "3" THEN noise_dec(noise)
                    ELSE IF k = "4" THEN noise + 1 ELSE noise
        /\ color' = IF k = "r" THEN 1
                    ELSE IF k = "SPACE" THEN Xor1(color) ELSE color
        /\ progressive' = prog1
        /\ raw' = IF k = "r" THEN 0
                  ELSE IF k = "t" THEN Xor1(raw) ELSE raw
        /\ play' = IF k = "p" THEN Xor1(play) ELSE play
        /\ hs' = IF k = "h" THEN hs_dec(hs)
                 ELSE IF k = "y" THEN hs + 1 ELSE hs
        /\ vs' = IF k = "j" THEN vs_dec(vs)
                 ELSE IF k = "u" THEN vs + 1 ELSE vs
        /\ saved' = IF k = "o" THEN save_frame(1, "key") ELSE saved
        /\ frame' = fr
        /\ IF steps
             THEN /\ imgload' = L.imgload
                  /\ imgw' = L.imgw
                  /\ pScreenShot' = L.pScreenShot
                  /\ img' = L.img
             ELSE UNCHANGED <<imgload, imgw, pScreenShot, img>>
        /\ field' = field_key(field, prog1, k)
        /\ lastKey' = [key |-> k, was |-> Globals]
        /\ UNCHANGED <<roll, pc, tickLog, encHist, ntsc>>
        /\ UNCHANGED <<batchVars, fadeVars>>

\* SDL_PollEvent returns 0: handleInput returns 0 and the loop goes round
PollEmpty ==
    /\ pc = "input"
    /\ stop = 0
    /\ pc' = "display"
    /\ UNCHANGED <<color, roll, hs, vs, frame, play, img, imgload, imgw,
                   pScreenShot, crt, tickLog, encHist, saved, lastKey, stop>>
    /\ UNCHANGED <<batchVars, sharedVars, fadeVars>>

\* SDL_QUIT or the escape key: handleInput returns -1 and the loop ends
\* mutant: the stop event ends the loop wherever the loop is
Quit_at_top ==
    /\ pc \in {"display", "input"}
    /\ stop <= 1
    /\ pc' = "exit"
    /\ UNCHANGED <<color, roll, hs, vs, frame, play, img, imgload, imgw,
                   pScreenShot, crt, tickLog, encHist, saved, lastKey, stop>>
    /\ UNCHANGED <<batchVars, sharedVars, fadeVars>>

Quit ==
    /\ pc = "input"
    /\ stop <= 1
    /\ pc' = "exit"
    /\ UNCHANGED <<color, roll, hs, vs, frame, play, img, imgload, imgw,
                   pScreenShot, crt, tickLog, encHist, saved, lastKey, stop>>
    /\ UNCHANGED <<batchVars, sharedVars, fadeVars>>

\* the window is closed or escape is pressed while the loop runs: the event
\* joins the queue behind the ahead key events already waiting there
PostStop(ahead) ==
    /\ pc \in {"display", "input"}
    /\ stop = 0
    /\ pc = "display" => ENABLED DisplayCb
    /\ stop' = ahead + 1
    /\ UNCHANGED <<color, roll, hs, vs, frame, play, img, imgload, imgw,
                   pScreenShot, crt, pc, tickLog, encHist, saved, lastKey>>
    /\ UNCHANGED <<batchVars, sharedVars, fadeVars>>

\* the framebuffer word while fade_phosphors is not looked at
FadeIdle == video = 0 /\ faded = [from |-> 0, prev |-> 0, n |-> 0]

(* ---------------------------- fade_phosphors --------------------------- *)
\* a & b on non-negative integers
RECURSIVE And(_, _)
And(a, b) ==
    IF a = 0 \/ b = 0 THEN 0
    ELSE (a % 2) * (b % 2) + 2 * And(a \div 2, b \div 2)

\* mutant: the four shifted copies are added without their masks
fade_word_unmasked(v) ==
    LET c == v % 16777216
    IN  (c \div 2) + (c \div 4) + (c \div 8) + (c \div 16)

\* mutant: the last term is shifted by 3 again
fade_word_hold(v) ==
    LET c == v % 16777216
    IN  And(c \div 2, 8355711) + And(c \div 4, 4144959)
          + And(c \div 8, 2039583) + And(c \div 8, 2039583)

\* what fade_phosphors stores for the word v: c = v & 0xffffff, then
\* (c >> 1 & 0x7f7f7f) + (c >> 2 & 0x3f3f3f) + (c >> 3 & 0x1f1f1f)
\* + (c >> 4 & 0x0f0f0f); v is a 32-bit int, negative when its top bit is set
fade_word(v) ==
    LET c == v % 16777216
    IN  And(c \div 2, 8355711) + And(c \div 4, 4144959)
          + And(c \div 8, 2039583) + And(c \div 16, 986895)

\* one fade_phosphors call with nothing drawn in between
Fade ==
    /\ faded.n < MaxFades
    /\ video' = fade_word(video)
    /\ faded' = [from |-> faded.from, prev |-> video, n |-> faded.n + 1]
    /\ UNCHANGED <<sdlVars, batchVars, sharedVars>>

\* the 32-bit int with top byte t (two's complement: -1 is 0xff) and
\* channel bytes r, g, b
Word(t, r, g, b) == t * 16777216 + r * 65536 + g * 256 + b
Byte == 0..255
Tops == {0, 127, -1}
Others == {0, 255}
\* every value of each channel, beside neighbours that are all zeros or
\* all ones, under each top byte
Words ==
    { Word(t, IF ch = 2 THEN v ELSE o, IF ch = 1 THEN v ELSE o,
              IF ch = 0 THEN v ELSE o) :
        t \in Tops, ch \in 0..2, v \in Byte, o \in Others }

(* ------------------------------ main (SDL) ---------------------------- *)
\* the batch build's variables while the SDL build runs
BatchIdle ==
    /\ docolor = 1 /\ dooverwrite = 1 /\ phase_offset = 0
    /\ outw = 832 /\ outh = 624 /\ err = 0
    /\ argv = <<>>
    /\ bpc = "none" /\ calls = <<>> /\ passLog = <<>>

\* the state when main reaches its do/while loop: the static initialisers,
\* frame = 200 and the first load_frame, which may fail
InitSDL ==
    /\ \E ok \in BOOLEAN :
         LET L == load_frame(ok, StartFrame, 0, "NULL")
         IN  /\ imgload = L.imgload /\ imgw = L.imgw
             /\ pScreenShot = L.pScreenShot /\ img = L.img
    /\ color = 1 /\ noise = 0 /\ field = 0 /\ progressive = 1 /\ raw = 0
    /\ roll = 0 /\ hs = InitHs /\ vs = InitVs /\ frame = StartFrame /\ play = 0
    /\ crt = [saturation |-> 0, black_point |-> 0, white_point |-> 0,
              brightness |-> 0, contrast |-> 0]
    /\ ntsc = ZeroNtsc
    /\ pc = "display" /\ tickLog = <<>> /\ encHist = <<>> /\ saved = <<>>
    /\ lastKey = NoKey
    /\ stop = 0
    /\ BatchIdle
    /\ FadeIdle

KeysSeq == {"p", "COMMA", "PERIOD", "r", "o"}
KeysField == {"e", "f", "SPACE", "t", "r", "1", "2"}
KeysKnob == {"3", "4", "h", "y", "j", "u"}

KeySeq == \E k \in KeysSeq, ok \in BOOLEAN : KeyDown(k, ok)
KeyField == \E k \in KeysField, ok \in BOOLEAN : KeyDown(k, ok)
KeyKnob == \E k \in KeysKnob, ok \in BOOLEAN : KeyDown(k, ok)

\* the capture sequencer: transport keys
NextSeq == DisplayCb \/ KeySeq \/ PollEmpty \/ Quit
SpecSeq == InitSDL /\ [][NextSeq]_vars

\* the field sequencer: mode keys and engine knobs
NextField == DisplayCb \/ KeyField \/ PollEmpty \/ Quit
SpecField == InitSDL /\ [][NextField]_vars

\* a stop event delivered while the sequencer is used; the loop keeps running
\* as long as it has a step to take
KeysStop == {"p", "o", "PERIOD"}
KeyStop == \E k \in KeysStop, ok \in BOOLEAN : KeyDown(k, ok)
PostStopStep == \E ahead \in 0..MaxAhead : PostStop(ahead)
NextStop == DisplayCb \/ KeyStop \/ PollEmpty \/ Quit \/ PostStopStep
SpecStop == InitSDL /\ [][NextStop]_vars /\ WF_vars(NextStop)

\* the engine knobs and reset
KeysTune == {"1", "2", "q", "a", "w", "s", "UP", "DOWN", "LEFT", "RIGHT", "r"}
KeyTune == \E k \in KeysTune, ok \in BOOLEAN : KeyDown(k, ok)
NextTune == DisplayCb \/ KeyTune \/ PollEmpty \/ Quit
SpecTune == InitSDL /\ [][NextTune]_vars

\* noise and sync offsets
NextKnob == DisplayCb \/ KeyKnob \/ PollEmpty \/ Quit
SpecKnob == InitSDL /\ [][NextKnob]_vars

(* ============================ batch build ============================= *)
\* Strings are sequences of one-character strings.
Digits == {"0", "1", "2", "3", "4", "5", "6", "7", "8", "9"}
DigitVal(c) ==
    CASE c = "0" -> 0 [] c = "1" -> 1 [] c = "2" -> 2 [] c = "3" -> 3
      [] c = "4" -> 4 [] c = "5" -> 5 [] c = "6" -> 6 [] c = "7" -> 7
      [] c = "8" -> 8 [] c = "9" -> 9

\* the index after the run of digits of s that starts at i
RECURSIVE DigitsEnd(_, _)
DigitsEnd(s, i) ==
    IF i <= Len(s) /\ s[i] \in Digits THEN DigitsEnd(s, i + 1) ELSE i

\* the value of the digits s[i..j-1]
RECURSIVE DigitsVal(_, _, _, _)
DigitsVal(s, i, j, acc) ==
    IF i >= j THEN acc ELSE DigitsVal(s, i + 1, j, acc * 10 + DigitVal(s[i]))

\* strtol(s, &tail, 10): optional blanks and sign, then digits; with no
\* digit the value is 0 and tail is s itself.  More than 19 digits are out
\* of the range of long (the strings used here have at most 9 or at least
\* 20 digits); the result is then LONG_MAX or LONG_MIN, named in limit.
RECURSIVE BlanksEnd(_, _)
BlanksEnd(s, i) == IF i <= Len(s) /\ s[i] = " " THEN BlanksEnd(s, i + 1) ELSE i

strtol(s) ==
    LET b    == BlanksEnd(s, 1)
        neg  == b <= Len(s) /\ s[b] = "-"
        d    == IF b <= Len(s) /\ s[b] \in {"-", "+"} THEN b + 1 ELSE b
        e    == DigitsEnd(s, d)
        none == e = d
        big  == e - d > 19
    IN  [tail   |-> IF none THEN 1 ELSE e,
         erange |-> big,
         limit  |-> IF big THEN (IF neg THEN "LONG_MIN" ELSE "LONG_MAX") ELSE "",
         val    |-> IF none \/ big THEN 0
                    ELSE IF neg THEN 0 - DigitsVal(s, d, e, 0)
                    ELSE DigitsVal(s, d, e, 0)]

\* stoint: the value converted to int and the error flag
stoint(s) ==
    LET r == strtol(s)
    IN  [val |-> IF r.limit = "LONG_MAX" THEN -1
                 ELSE IF r.limit = "LONG_MIN" THEN 0 ELSE r.val,
         err |-> IF r.erange THEN 1
                 ELSE IF r.tail <= Len(s) THEN 1 ELSE 0]

\* process_args on the flag string fl, from the flag state g:
\* the flags after it and its return value
RECURSIVE flag_loop(_, _, _)
flag_loop(fl, i, g) ==
    IF i > Len(fl) THEN [g EXCEPT !.ret = 1]
    ELSE CASE fl[i] = "m" -> flag_loop(fl, i + 1, [g EXCEPT !.docolor = 0])
           [] fl[i] = "o" -> flag_loop(fl, i + 1, [g EXCEPT !.dooverwrite = 0])
           [] fl[i] = "f" -> flag_loop(fl, i + 1, [g EXCEPT !.field = 1])
           [] fl[i] = "p" -> flag_loop(fl, i + 1, [g EXCEPT !.progressive = 1])
           [] fl[i] = "r" -> flag_loop(fl, i + 1, [g EXCEPT !.raw = 1])
           [] OTHER       -> [g EXCEPT !.ret = 0]

process_args(fl, g) ==
    flag_loop(fl, IF Len(fl) > 0 /\ fl[1] = "-" THEN 2 ELSE 1, g)

phase_ref == <<0, 1, 0, -1>>

\* x & 3 on a two's complement int
And3(x) == x % 4

\* mutant: the table is indexed with (i - p) & 3
cc_table_right(p) == [i \in 1..4 |-> phase_ref[And3((i - 1) - p) + 1]]

\* ntsc.cc as main fills it from phase_ref
cc_table(p) == [i \in 1..4 |-> phase_ref[And3(p + (i - 1)) + 1]]

Call(op, n) == [op |-> op, n |-> n]

\* main up to the calloc of the output buffer: argument count, flags, the
\* four numbers; allocOk is whether calloc returns a buffer
BatchArgs(allocOk) ==
    LET g0 == [docolor |-> docolor, dooverwrite |-> dooverwrite, field |-> field,
               progressive |-> progressive, raw |-> raw, ret |-> 1]
        g  == process_args(argv.flags, g0)
        w  == stoint(argv.outw)
        h  == stoint(argv.outh)
        n  == stoint(argv.noise)
        p  == stoint(argv.phase)
        nz == IF n.val < 0 THEN 0 ELSE n.val
        numsOk == w.err = 0 /\ h.err = 0 /\ n.err = 0 /\ p.err = 0
        okAll == argv.argc >= 8 /\ g.ret = 1 /\ numsOk
                 /\ allocOk /\ w.val * h.val >= 0
    IN  /\ bpc = "start"
        /\ IF argv.argc < 8
             THEN UNCHANGED <<docolor, dooverwrite, field, progressive, raw>>
             ELSE /\ docolor' = g.docolor
                  /\ dooverwrite' = g.dooverwrite
                  /\ field' = g.field
                  /\ progressive' = g.progressive
                  /\ raw' = g.raw
        /\ outw' = IF argv.argc >= 8 /\ g.ret = 1 THEN w.val ELSE outw
        /\ outh' = IF argv.argc >= 8 /\ g.ret = 1 /\ w.err = 0 THEN h.val ELSE outh
        /\ noise' = IF argv.argc >= 8 /\ g.ret = 1 /\ w.err = 0 /\ h.err = 0
                      THEN (IF n.err = 0 THEN nz ELSE n.val)
                      ELSE noise
        /\ phase_offset' = IF argv.argc >= 8 /\ g.ret = 1 /\ w.err = 0
                              /\ h.err = 0 /\ n.err = 0
                             THEN (IF p.err = 0 THEN And3(p.val) ELSE p.val)
                             ELSE phase_offset
        /\ bpc' = IF okAll THEN "read" ELSE "fail"
        /\ UNCHANGED <<err, argv, calls, passLog, ntsc>>
        /\ UNCHANGED <<sdlVars, fadeVars>>

\* ppm_read24, promptoverwrite, crt_init and the filling of ntsc;
\* readOk: the image was read; go: the user lets the output be overwritten
BatchLoad(readOk, go) ==
    /\ bpc = "read"
    /\ IF ~readOk
         THEN /\ bpc' = "fail"
              /\ UNCHANGED <<img, imgw, calls, ntsc, err>>
         ELSE /\ img' = "ppm"
              /\ imgw' = 1
              /\ IF dooverwrite = 1 /\ ~go
                   THEN /\ bpc' = "fail"
                        /\ UNCHANGED <<calls, ntsc, err>>
                   ELSE /\ calls' = Append(calls, Call("crt_init", 0))
                        /\ ntsc' = [rgb |-> "ppm", as_color |-> docolor,
                                    field |-> field % 2, raw |-> raw,
                                    cc |-> cc_table(phase_offset)]
                        /\ err' = 0
                        /\ bpc' = "loop"
    /\ UNCHANGED <<color, roll, hs, vs, frame, play, imgload, pScreenShot, crt,
                   pc, tickLog, encHist, saved, lastKey, stop>>
    /\ UNCHANGED fadeVars
    /\ UNCHANGED <<docolor, dooverwrite, phase_offset, outw, outh, argv, passLog>>
    /\ UNCHANGED <<noise, field, progressive, raw>>

\* crt_2ntsc(&crt, &ntsc); crt_draw(&crt, noise)
encode_draw(nt) == <<Call("crt_2ntsc", nt.field), Call("crt_draw", noise)>>

\* mutant: the second call is made whatever progressive is
pass_body_both(nt) ==
    LET nt2 == [nt EXCEPT !.field = Xor1(@)]
    IN  [ntsc |-> nt2, made |-> encode_draw(nt) \o encode_draw(nt2), toggles |-> 1]

\* mutant: the field is toggled back after the second call
pass_body_back(nt) ==
    LET nt2 == [nt EXCEPT !.field = Xor1(@)]
    IN  IF progressive = 0
          THEN [ntsc |-> nt, made |-> encode_draw(nt) \o encode_draw(nt2),
                toggles |-> 2]
          ELSE [ntsc |-> nt, made |-> encode_draw(nt), toggles |-> 0]

\* mutant: the second call is made without toggling ntsc.field
pass_body_notoggle(nt) ==
    IF progressive = 0
      THEN [ntsc |-> nt, made |-> encode_draw(nt) \o encode_draw(nt), toggles |-> 0]
      ELSE [ntsc |-> nt, made |-> encode_draw(nt), toggles |-> 0]

\* the body of one round of "while (err < 4)": the new ntsc, the engine
\* calls it makes and the number of times it toggles ntsc.field
pass_body(nt) ==
    LET nt2 == [nt EXCEPT !.field = Xor1(@)]
    IN  IF progressive = 0
          THEN [ntsc |-> nt2, made |-> encode_draw(nt) \o encode_draw(nt2),
                toggles |-> 1]
          ELSE [ntsc |-> nt, made |-> encode_draw(nt), toggles |-> 0]

BatchPass ==
    LET b == pass_body(ntsc)
    IN  /\ bpc = "loop"
        /\ err < Passes
        /\ ntsc' = b.ntsc
        /\ calls' = calls \o b.made
        /\ passLog' = Append(passLog, [start |-> ntsc.field, end |-> b.ntsc.field,
                                       toggles |-> b.toggles,
                                       encodes |-> Len(b.made) \div 2])
        /\ err' = err + 1
        /\ UNCHANGED <<docolor, dooverwrite, phase_offset, outw, outh, argv, bpc>>
        /\ UNCHANGED <<noise, field, progressive, raw>>
        /\ UNCHANGED <<sdlVars, fadeVars>>

\* the loop is left and ppm_write24 writes the output (or fails)
BatchWrite(writeOk) ==
    /\ bpc = "loop"
    /\ ~(err < Passes)
    /\ calls' = Append(calls, Call("ppm_write24", IF writeOk THEN 1 ELSE 0))
    /\ bpc' = IF writeOk THEN "done" ELSE "fail"
    /\ UNCHANGED <<docolor, dooverwrite, phase_offset, outw, outh, argv, err,
                   passLog>>
    /\ UNCHANGED sharedVars
    /\ UNCHANGED <<sdlVars, fadeVars>>

\* the SDL build's variables while the batch build runs
SDLIdle ==
    /\ color = 1 /\ roll = 0 /\ hs = InitHs /\ vs = InitVs /\ frame = 1 /\ play = 0
    /\ img = "NULL" /\ imgload = "NULL" /\ imgw = 0 /\ pScreenShot = "NULL"
    /\ crt = [saturation |-> 0, black_point |-> 0, white_point |-> 0,
              brightness |-> 0, contrast |-> 0]
    /\ pc = "none" /\ tickLog = <<>> /\ encHist = <<>> /\ saved = <<>>
    /\ lastKey = NoKey
    /\ stop = 0

FlagArgs == { <<"-">>, <<"-", "p">>, <<"-", "f">>, <<"-", "f", "p">>,
              <<"-", "m", "o", "r">>, <<"p", "f">>, <<"-", "h">>, <<"-", "p", "z">> }
WidthArgs == { <<"4">>, <<"0">>, <<"x">> }
HeightArgs == { <<"4">>, <<"-", "1">> }
NoiseArgs == { <<"0">>, <<"2", "4">>, <<"-", "1">>, <<"2", "x">>, <<>> }
PhaseArgs == { <<"0">>, <<"1">>, <<"2">>, <<"3">>, <<"5">>, <<"-", "1">>, <<"x">> }

\* the state at the entry of the batch main: the static initialisers and
\* the initialised locals
InitBatch ==
    /\ argv \in [argc : {7, 8}, flags : FlagArgs, outw : WidthArgs,
                 outh : HeightArgs, noise : NoiseArgs, phase : PhaseArgs]
    /\ dooverwrite = 1 /\ docolor = 1 /\ field = 0 /\ progressive = 0 /\ raw = 0
    /\ phase_offset = 0 /\ outw = 832 /\ outh = 624 /\ noise = 24 /\ err = 0
    /\ ntsc = ZeroNtsc
    /\ bpc = "start" /\ calls = <<>> /\ passLog = <<>>
    /\ SDLIdle
    /\ FadeIdle

BatchArgsStep == \E allocOk \in BOOLEAN : BatchArgs(allocOk)
BatchLoadStep == \E readOk \in BOOLEAN, go \in BOOLEAN : BatchLoad(readOk, go)
BatchWriteStep == \E writeOk \in BOOLEAN : BatchWrite(writeOk)

NextBatch == BatchArgsStep \/ BatchLoadStep \/ BatchPass \/ BatchWriteStep
SpecBatch == InitBatch /\ [][NextBatch]_vars

(* ------------------- fade_phosphors on its own ----------------------- *)
InitFade ==
    /\ video \in Words
    /\ faded = [from |-> video, prev |-> video, n |-> 0]
    /\ noise = 0 /\ field = 0 /\ progressive = 1 /\ raw = 0 /\ ntsc = ZeroNtsc
    /\ SDLIdle
    /\ BatchIdle

NextFade == Fade
SpecFade == InitFade /\ [][NextFade]_vars

(* ============================== properties ============================ *)
Count(log, op) == Cardinality({i \in DOMAIN log : log[i].op = op})
IndexOf(log, op) == CHOOSE i \in DOMAIN log : log[i].op = op
Encodes == SelectSeq(calls, LAMBDA c : c.op = "crt_2ntsc")
LoopLeft == \E i \in DOMAIN calls : calls[i].op = "ppm_write24"
FieldFlagGiven == \E i \in DOMAIN argv.flags : argv.flags[i] = "f"
\* the state displaycb leaves, before handleInput takes any event
AfterTick == pc = "input" /\ lastKey = NoKey

\* C1: the batch loop runs exactly 4 passes; when it is left, 8
\* encode-then-draw calls were made with progressive off and 4 with it on,
\* and with progressive on every call got the configured field parity
\* (0 when the f flag is not given).
C1_BatchPasses ==
    /\ Len(passLog) <= 4
    /\ (bpc = "loop" /\ err >= 4) => Len(passLog) = 4
    /\ LoopLeft =>
         /\ Len(passLog) = 4
         /\ Len(Encodes) = IF progressive = 0 THEN 8 ELSE 4
         /\ Count(calls, "crt_draw") = Len(Encodes)
    /\ (bpc \in {"loop", "done"} /\ progressive = 1) =>
         \A i \in DOMAIN Encodes :
            /\ Encodes[i].n = field % 2
            /\ ~FieldFlagGiven => Encodes[i].n = 0

C1_Witness ==
    /\ bpc = "done" /\ progressive = 1 /\ field = 1
    /\ Len(Encodes) = 4 /\ Len(passLog) = 4

\* C2 as stated: a progressive pass never toggles the parity, an interlaced
\* pass toggles it exactly twice, and every pass ends on the parity it
\* started with.
C2_TwoTogglesPerPass ==
    \A i \in DOMAIN passLog :
       /\ progressive = 1 => passLog[i].toggles = 0
       /\ progressive = 0 => passLog[i].toggles = 2
       /\ passLog[i].end = passLog[i].start

\* C2 amended: a progressive pass never toggles the parity and ends on the
\* parity it started with; an interlaced pass toggles it exactly once and
\* ends on the opposite parity.
C2_OneTogglePerPass ==
    \A i \in DOMAIN passLog :
       /\ progressive = 1 =>
            passLog[i].toggles = 0 /\ passLog[i].end = passLog[i].start
       /\ progressive = 0 =>
            passLog[i].toggles = 1 /\ passLog[i].end = 1 - passLog[i].start

C2_Witness ==
    /\ progressive = 0 /\ Len(passLog) = 4
    /\ passLog[1].start = 1 /\ passLog[1].end = 0

\* C3: with progressive off at two consecutive ticks, the second tick's
\* encode gets the opposite field parity of the first, whatever keys were
\* handled in between.
C3_Alternates ==
    (Len(encHist) = 2 /\ encHist[1].prog = 0 /\ encHist[2].prog = 0)
       => encHist[1].field # encHist[2].field

\* C4: a tick taken while playing at index i loads for i first, makes one
\* encode and one draw, then saves to file i after the draw, and leaves
\* frame = i + 1.
C4_PlayingTick ==
    [][(pc = "display" /\ pc' = "input" /\ play = 1) =>
         /\ tickLog'[1] = Entry("load", frame, FrameName(frame))
         /\ Count(tickLog', "load") = 1
         /\ Count(tickLog', "encode") = 1
         /\ Count(tickLog', "draw") = 1
         /\ Count(tickLog', "save") = 1
         /\ IndexOf(tickLog', "load") < IndexOf(tickLog', "encode")
         /\ IndexOf(tickLog', "encode") < IndexOf(tickLog', "draw")
         /\ IndexOf(tickLog', "draw") < IndexOf(tickLog', "save")
         /\ tickLog'[IndexOf(tickLog', "save")].n = frame
         /\ saved' = Append(saved, [n |-> frame, by |-> "tick"])
         /\ frame' = frame + 1]_vars

C4_Witness ==
    /\ AfterTick /\ play = 1
    /\ Count(tickLog, "save") = 1
    /\ tickLog[1].op = "load" /\ tickLog[1].n = StartFrame
    /\ saved[Len(saved)] = [n |-> StartFrame, by |-> "tick"]
    /\ frame = StartFrame + 1

\* C5: no file number is written twice, and the numbers written by playing
\* ticks are consecutive and increasing.
C5_NoLossNoDup ==
    /\ \A i, j \in DOMAIN saved : i # j => saved[i].n # saved[j].n
    /\ LET t == SelectSeq(saved, LAMBDA e : e.by = "tick")
       IN  \A i \in 1..(Len(t) - 1) : t[i + 1].n = t[i].n + 1

\* C6: a playing tick whose load failed leaves the sequencer stopped, has
\* written no file and has not advanced the index.
C6_FailedLoadStops ==
    (AfterTick /\ Count(tickLog, "message") > 0) =>
       /\ play = 0
       /\ Count(tickLog, "save") = 0
       /\ frame = tickLog[IndexOf(tickLog, "load")].n

\* C7: no encode call is made with a null source buffer.
C7_NoNullEncode ==
    \A i \in DOMAIN tickLog : tickLog[i].op = "encode" => tickLog[i].s # "NULL"

\* C8: every tick applies the phosphor decay exactly once, before its draw.
C8_FadeOncePerTick ==
    pc = "input" =>
       /\ Count(tickLog, "fade") = 1
       /\ IndexOf(tickLog, "fade") < IndexOf(tickLog, "draw")

\* C9: frame (currentFrameIndex) is at least 1 in every reachable state.
C9_FramePositive == frame >= 1

C9_Witness ==
    /\ lastKey.key = "COMMA" /\ lastKey.was.frame = 1 /\ frame = 1
    /\ Len(saved) > 0

\* C10: noise, hs and vs are never negative, and a decrement key handled
\* at 0 leaves the value at 0.
C10_NonNegative ==
    /\ noise >= 0 /\ hs >= 0 /\ vs >= 0
    /\ (lastKey.key = "3" /\ lastKey.was.noise = 0) => noise = 0
    /\ (lastKey.key = "h" /\ lastKey.was.hs = 0) => hs = 0
    /\ (lastKey.key = "j" /\ lastKey.was.vs = 0) => vs = 0

C10_Witness ==
    /\ lastKey.key = "j" /\ lastKey.was.vs = 0 /\ vs = 0
    /\ hs = 0 /\ noise = 0

\* C11: after the reset key is handled, whatever the state before it, color
\* is on, field is 0, progressive is on and raw is off; the toggle that
\* closes the key event does not leave field at 1.
C11_ResetFlags ==
    lastKey.key = "r" =>
       color = 1 /\ field = 0 /\ progressive = 1 /\ raw = 0

C11_Witness ==
    /\ lastKey.key = "r"
    /\ lastKey.was.color = 0 /\ lastKey.was.progressive = 0
    /\ lastKey.was.field = 1 /\ lastKey.was.raw = 1
    /\ field = 0

C13_StepExact ==
    /\ lastKey.key = "PERIOD" => frame = lastKey.was.frame + 1
    /\ (lastKey.key = "COMMA" /\ lastKey.was.frame > 1) =>
          frame = lastKey.was.frame - 1
    /\ step_back(step_forward(step_forward(5))) = 6

C13_Steps ==
    /\ []C13_StepExact
    /\ [][(lastKey.key = "PERIOD" /\ lastKey'.key = "COMMA" /\ lastKey' # lastKey)
             => frame' = lastKey.was.frame]_vars

C13_Witness ==
    /\ lastKey.key = "COMMA"
    /\ lastKey.was.play = 0
    /\ lastKey.was.frame = StartFrame + 1
    /\ frame = StartFrame

\* s rotated left by k positions
RotLeft(s, k) == SubSeq(s, k + 1, Len(s)) \o SubSeq(s, 1, k)
NtscFilled == \E i \in DOMAIN calls : calls[i].op = "crt_init"

\* C14: once main has filled ntsc, phase_offset is in 0..3 and congruent
\* mod 4 to the integer given on the command line (equal to it when that is
\* in 0..3), and the colorburst table is {0, 1, 0, -1} rotated left by
\* phase_offset positions; offset 0 gives the reference pattern itself.
C14_Colorburst ==
    NtscFilled =>
       /\ phase_offset \in 0..3
       /\ (phase_offset - stoint(argv.phase).val) % 4 = 0
       /\ stoint(argv.phase).val \in 0..3 =>
             phase_offset = stoint(argv.phase).val
       /\ ntsc.cc = RotLeft(<<0, 1, 0, -1>>, phase_offset)
       /\ \A i \in 0..3 : ntsc.cc[i + 1] = phase_ref[((phase_offset + i) % 4) + 1]
       /\ phase_offset = 0 => ntsc.cc = <<0, 1, 0, -1>>

C14_Witness ==
    /\ bpc = "done"
    /\ argv.phase = <<"-", "1">>
    /\ phase_offset = 3
    /\ ntsc.cc = <<-1, 0, 1, 0>>

EncodesOf(par) == Cardinality({i \in DOMAIN Encodes : Encodes[i].n = par})

\* C20: with progressive off, the two encode-then-draw calls of every pass
\* get opposite parities; when the loop is left each parity was encoded
\* exactly 4 times and ntsc.field is again the configured parity.
C20_InterlacedParities ==
    progressive = 0 =>
       /\ Len(Encodes) = 2 * Len(passLog)
       /\ \A i \in DOMAIN passLog :
             Encodes[2 * i - 1].n = 1 - Encodes[2 * i].n
       /\ ((bpc = "loop" /\ err >= 4) \/ LoopLeft) =>
             /\ Len(passLog) = 4
             /\ EncodesOf(0) = 4 /\ EncodesOf(1) = 4
             /\ ntsc.field = field % 2

C20_Witness ==
    /\ bpc = "done" /\ progressive = 0 /\ field = 1
    /\ Len(Encodes) = 8 /\ ntsc.field = 1
    /\ Encodes[1].n = 1 /\ Encodes[2].n = 0

\* C18: after the reset key is handled, frame is the value it had when the
\* tick loop started.
C18_ResetToInitial ==
    lastKey.key = "r" => frame = StartFrame

\* an optional minus sign followed by at least one digit and nothing else
IsNumeric(s) ==
    LET body == IF Len(s) > 0 /\ s[1] = "-" THEN Tail(s) ELSE s
    IN  Len(body) > 0 /\ \A i \in DOMAIN body : body[i] \in Digits

\* some numeric argument is not a number, or the width or height is not
\* positive, or the noise is negative, or the phase offset is outside 0..3
BadArgument ==
    \/ \E s \in {argv.outw, argv.outh, argv.noise, argv.phase} : ~IsNumeric(s)
    \/ stoint(argv.outw).val <= 0
    \/ stoint(argv.outh).val <= 0
    \/ stoint(argv.noise).val < 0
    \/ stoint(argv.phase).val \notin 0..3

\* C17: a batch run given a bad argument ends in failure as soon as main
\* has looked at its arguments, with no crt_init, no encode-then-draw call
\* and no output file written.
C17_BadArgsFatal ==
    (bpc \in {"read", "loop", "done", "fail"} /\ BadArgument) =>
       bpc = "fail" /\ calls = <<>>

\* the last tick encoded once, then drew once, then presented
TickComplete ==
    /\ Count(tickLog, "encode") = 1 /\ Count(tickLog, "draw") = 1
    /\ IndexOf(tickLog, "encode") < IndexOf(tickLog, "draw")
    /\ tickLog[Len(tickLog)].op = "present"

\* C16: the loop is left only from handleInput, after the tick's encode,
\* draw and presentation; the step that leaves it and every step after it
\* makes no encode, draw, load or save; and a stop event that has been
\* delivered always ends the loop.
C16_CooperativeStop ==
    /\ [][(pc # "exit" /\ pc' = "exit") =>
             /\ pc = "input"
             /\ TickComplete
             /\ UNCHANGED <<tickLog, encHist, saved, imgload, img, ntsc, frame, roll>>]_vars
    /\ [][pc # "exit"]_vars
    /\ (stop > 0 ~> pc = "exit")

C16_Witness ==
    /\ pc = "exit" /\ stop = 1
    /\ lastKey.key = "o"
    /\ roll = RollStep * 2
    /\ TickComplete

\* channel i (0, 1, 2 from the low byte up) of the word w
Chan(w, i) ==
    ((w % 16777216) \div (CASE i = 0 -> 1 [] i = 1 -> 256 [] i = 2 -> 65536)) % 256
\* (v >> 1) + (v >> 2) + (v >> 3) + (v >> 4) on one byte
Decay(v) == (v \div 2) + (v \div 4) + (v \div 8) + (v \div 16)

\* C15: with nothing drawn in between, every fade_phosphors call lowers each
\* nonzero channel strictly and leaves a zero channel at 0, and after
\* MaxFades calls every channel is 0 whatever byte it started with.
C15_DecayConverges ==
    /\ faded.n > 0 =>
         \A i \in 0..2 :
            /\ Chan(faded.prev, i) > 0 => Chan(video, i) < Chan(faded.prev, i)
            /\ Chan(faded.prev, i) = 0 => Chan(video, i) = 0
    /\ faded.n >= MaxFades => video = 0

C15_Witness ==
    /\ Chan(faded.from, 0) = 255
    /\ faded.n > 1
    /\ faded.prev # 0
    /\ video = 0

\* C19: the word fade_phosphors stores has its top byte zero, and each of
\* its channels is (v>>1)+(v>>2)+(v>>3)+(v>>4) of the same channel's byte v
\* of the word before, which is at most 255.
C19_ChannelsIndependent ==
    faded.n > 0 =>
       /\ video \in 0..16777215
       /\ \A i \in 0..2 :
             /\ Decay(Chan(faded.prev, i)) <= 255
             /\ Chan(video, i) = Decay(Chan(faded.prev, i))

C19_Witness ==
    /\ faded.n = 1
    /\ faded.prev = Word(-1, 255, 0, 255)
    /\ video = Word(0, 236, 0, 236)

====
